---- MODULE Spec2Model ----
(***************************************************************************)
(* Carbon-emissions calculator (src/app.py): a Streamlit script that is    *)
(* re-executed top to bottom on every user interaction.  The session state *)
(* (emission_factors, matched_data, calculation_done) and the widget state *)
(* (the uploaded file) survive between executions; everything else is      *)
(* recomputed by each execution.  One action of this module is one user    *)
(* interaction together with the complete script execution it triggers.    *)
(*                                                                         *)
(* Text.  TLA+ strings are ASCII, so a Python str is modelled as the       *)
(* sequence of its characters, a non-ASCII character being written "uXXXX" *)
(* (its code point).  Substring tests and concatenation then work on the   *)
(* characters exactly as `in` and f-strings do.                            *)
(*                                                                         *)
(* Numbers.  Emission factors are exact decimals with four places and are  *)
(* held as integers in units of 1/10000 (2.1622 is 21622); activity        *)
(* quantities are integers.  Emissions in kg are held in units of          *)
(* 1/10000 kg, and emissions in tonnes in units of 1/10000000 t.           *)
(***************************************************************************)
EXTENDS FiniteSets, Integers, Sequences, TLC

VARIABLES
    emission_factors,   \* st.session_state.emission_factors : key -> entry
    matched_data,       \* st.session_state.matched_data : NoData or rows
    calculation_done,   \* st.session_state.calculation_done
    uploaded_file,      \* the file_uploader widget: NoFile or a file
    event,              \* the interaction that triggered the last execution
    feedback,           \* st.success / st.error boxes shown by the last execution
    report,             \* step-4 output of the last execution, or NoReport
    edits               \* cell edits made so far

vars == <<emission_factors, matched_data, calculation_done, uploaded_file,
          event, feedback, report, edits>>

-----------------------------------------------------------------------------
(* Bounds of the model *)

\* most rows in an uploaded sheet (the template sheet has its own six)
MaxRows == 2

\* most cells the reviewer edits in one matched table
MaxEdits == 1

-----------------------------------------------------------------------------
(* Text constants of the program *)

\* '固定燃烧-'
FixedCombustion == <<"u56FA", "u5B9A", "u71C3", "u70E7", "-">>
\* '移动燃烧-'
MobileCombustion == <<"u79FB", "u52A8", "u71C3", "u70E7", "-">>
\* '工艺排放-'
ProcessEmission == <<"u5DE5", "u827A", "u6392", "u653E", "-">>
\* '无组织排放-'
FugitiveEmission == <<"u65E0", "u7EC4", "u7EC7", "u6392", "u653E", "-">>
\* '外购电力-'
PurchasedPower == <<"u5916", "u8D2D", "u7535", "u529B", "-">>
\* '外购热力-'
PurchasedHeat == <<"u5916", "u8D2D", "u70ED", "u529B", "-">>
\* '外购电力-全国平均'
NationalAverage == <<"u5916", "u8D2D", "u7535", "u529B", "-", "u5168", "u56FD", "u5E73", "u5747">>
\* '未识别'
Unrecognized == <<"u672A", "u8BC6", "u522B">>
\* '电'
ElectricityMarker == <<"u7535">>
\* '直接'
DirectMarker == <<"u76F4", "u63A5">>
\* '1.1' ... '2.2'
Code11 == <<"1", ".", "1">>
Code12 == <<"1", ".", "2">>
Code13 == <<"1", ".", "3">>
Code14 == <<"1", ".", "4">>
Code21 == <<"2", ".", "1">>
Code22 == <<"2", ".", "2">>

\* '待补充', the unit of an unmatched row
NeedsInput == "u5F85u8865u5145"
\* '✅ 已匹配' and '❌ 未匹配'
Matched == "u2705 u5DF2u5339u914D"
Unmatched == "u274C u672Au5339u914D"
\* '范围一' and '范围二'
Scope1 == "u8303u56F4u4E00"
Scope2 == "u8303u56F4u4E8C"

\* Python None as the derived key; like None, the empty str is falsy
None == <<>>

\* a blank cell of the sheet, read by pandas as NaN
NaN == <<"NaN">>

\* a cell of the editor's text column cleared by the reviewer
Cleared == "None"

-----------------------------------------------------------------------------
(* The default registry *)

\* 固定燃烧-天然气
K0 == <<"u56FA", "u5B9A", "u71C3", "u70E7", "-", "u5929", "u7136", "u6C14">>
\* 固定燃烧-煤炭
K1 == <<"u56FA", "u5B9A", "u71C3", "u70E7", "-", "u7164", "u70AD">>
\* 固定燃烧-柴油
K2 == <<"u56FA", "u5B9A", "u71C3", "u70E7", "-", "u67F4", "u6CB9">>
\* 固定燃烧-汽油
K3 == <<"u56FA", "u5B9A", "u71C3", "u70E7", "-", "u6C7D", "u6CB9">>
\* 移动燃烧-汽油
K4 == <<"u79FB", "u52A8", "u71C3", "u70E7", "-", "u6C7D", "u6CB9">>
\* 移动燃烧-柴油
K5 == <<"u79FB", "u52A8", "u71C3", "u70E7", "-", "u67F4", "u6CB9">>
\* 工艺排放-丙烷
K6 == <<"u5DE5", "u827A", "u6392", "u653E", "-", "u4E19", "u70F7">>
\* 工艺排放-二氧化碳
K7 == <<"u5DE5", "u827A", "u6392", "u653E", "-", "u4E8C", "u6C27", "u5316", "u78B3">>
\* 无组织排放-R410A
K8 == <<"u65E0", "u7EC4", "u7EC7", "u6392", "u653E", "-", "R", "4", "1", "0", "A">>
\* 无组织排放-R32
K9 == <<"u65E0", "u7EC4", "u7EC7", "u6392", "u653E", "-", "R", "3", "2">>
\* 无组织排放-甲烷(化粪池)
K10 == <<"u65E0", "u7EC4", "u7EC7", "u6392", "u653E", "-", "u7532", "u70F7", "(", "u5316", "u7CAA", "u6C60", ")">>
\* 外购电力-全国平均
K11 == <<"u5916", "u8D2D", "u7535", "u529B", "-", "u5168", "u56FD", "u5E73", "u5747">>
\* 外购电力-华北区域
K12 == <<"u5916", "u8D2D", "u7535", "u529B", "-", "u534E", "u5317", "u533A", "u57DF">>
\* 外购电力-华东区域
K13 == <<"u5916", "u8D2D", "u7535", "u529B", "-", "u534E", "u4E1C", "u533A", "u57DF">>
\* 外购热力-蒸汽
K14 == <<"u5916", "u8D2D", "u70ED", "u529B", "-", "u84B8", "u6C7D">>

DefaultKeys == {K0, K1, K2, K3, K4, K5, K6, K7, K8, K9, K10, K11, K12, K13, K14}

Entry(f, u, g) == [factor |-> f, unit |-> u, ghg_type |-> g]

\* the dict literal assigned when the session starts
DefaultFactors ==
    [k \in DefaultKeys |->
        CASE k = K0  -> Entry(21622, "kgCO2/m3", "CO2")
          [] k = K1  -> Entry(23800, "kgCO2/kg", "CO2")
          [] k = K2  -> Entry(30959, "kgCO2/kg", "CO2")
          [] k = K3  -> Entry(29251, "kgCO2/kg", "CO2")
          [] k = K4  -> Entry(29251, "kgCO2/kg", "CO2")
          [] k = K5  -> Entry(30959, "kgCO2/kg", "CO2")
          [] k = K6  -> Entry(29761, "kgCO2/kg", "CO2")
          [] k = K7  -> Entry(10000, "kgCO2/kg", "CO2")
          [] k = K8  -> Entry(20880000, "kgCO2e/kg", "HFCs")
          [] k = K9  -> Entry(6750000, "kgCO2e/kg", "HFCs")
          [] k = K10 -> Entry(224000, "kgCO2e/kgBOD", "CH4")
          [] k = K11 -> Entry(5703, "kgCO2/kWh", "CO2")
          [] k = K12 -> Entry(8843, "kgCO2/kWh", "CO2")
          [] k = K13 -> Entry(7035, "kgCO2/kWh", "CO2")
          [] k = K14 -> Entry(1100000, "kgCO2/GJ", "CO2")]

-----------------------------------------------------------------------------
(* Helpers for Python values *)

\* Optional values: <<>> is None, <<v>> is the value v
NoData == <<>>
NoReport == <<>>
NoFile == <<>>

\* needle in hay
Contains(needle, hay) ==
    \E i \in 0..(Len(hay) - Len(needle)) :
        SubSeq(hay, i + 1, i + Len(needle)) = needle

\* str(cell): a blank cell prints as 'nan'
Str(cell) == IF cell = NaN THEN <<"n", "a", "n">> ELSE cell

RECURSIVE SumOver(_, _)
\* the sum of f over the finite set S of indices
SumOver(f, S) ==
    IF S = {} THEN 0
    ELSE LET i == CHOOSE j \in S : TRUE
         IN  f[i] + SumOver(f, S \ {i})

-----------------------------------------------------------------------------
(* Inputs of the model: the sheets a user uploads *)

\* '范围一：直接温室气体排放'
CatDirect == <<"u8303", "u56F4", "u4E00", "uFF1A", "u76F4", "u63A5", "u6E29", "u5BA4", "u6C14", "u4F53", "u6392", "u653E">>
\* '范围二：间接温室气体排放'
CatIndirect == <<"u8303", "u56F4", "u4E8C", "uFF1A", "u95F4", "u63A5", "u6E29", "u5BA4", "u6C14", "u4F53", "u6392", "u653E">>
\* '其他', a category text that names neither scope
CatOther == <<"u5176", "u4ED6">>

\* '1.1 固定燃烧'
Sub11 == <<"1", ".", "1", " ", "u56FA", "u5B9A", "u71C3", "u70E7">>
\* '1.2 移动燃烧'
Sub12 == <<"1", ".", "2", " ", "u79FB", "u52A8", "u71C3", "u70E7">>
\* '1.3 工艺排放'
Sub13 == <<"1", ".", "3", " ", "u5DE5", "u827A", "u6392", "u653E">>
\* '1.4 无组织排放'
Sub14 == <<"1", ".", "4", " ", "u65E0", "u7EC4", "u7EC7", "u6392", "u653E">>
\* '2.1 外购电力'
Sub21 == <<"2", ".", "1", " ", "u5916", "u8D2D", "u7535", "u529B">>
\* '2.2 外购热力'
Sub22 == <<"2", ".", "2", " ", "u5916", "u8D2D", "u70ED", "u529B">>
\* '2.1.1 外购电力', a finer numbering of purchased electricity
Sub211 == <<"2", ".", "1", ".", "1", " ", "u5916", "u8D2D", "u7535", "u529B">>
\* '9.9 未知'
Sub99 == <<"9", ".", "9", " ", "u672A", "u77E5">>

\* '天然气'
NaturalGas == <<"u5929", "u7136", "u6C14">>
\* '汽油'
Gasoline == <<"u6C7D", "u6CB9">>
\* '丙烷'
Propane == <<"u4E19", "u70F7">>
\* 'R410A'
R410A == <<"R", "4", "1", "0", "A">>
\* '外购市政电'
MunicipalPower == <<"u5916", "u8D2D", "u5E02", "u653F", "u7535">>
\* '蒸汽'
Steam == <<"u84B8", "u6C7D">>
\* '生物质'
Biomass == <<"u751F", "u7269", "u8D28">>

\* One row of the sheet.  The columns facility/process and unit are carried
\* through unread by every computation and are left out.
Row(c, s, src, q) == [category |-> c, subcategory |-> s, source |-> src, quantity |-> q]

\* The six example rows of the downloadable template.  The quantities of the
\* template (1239138, 11010, 792, 3.15, 1500000, 500) are replaced by small
\* ones so that every product and sum stays within TLC's 32-bit integers.
Template ==
    << Row(CatDirect,   Sub11, NaturalGas,     3),
       Row(CatDirect,   Sub12, Gasoline,       2),
       Row(CatDirect,   Sub13, Propane,        1),
       Row(CatDirect,   Sub14, R410A,          3),
       Row(CatIndirect, Sub21, MunicipalPower, 2),
       Row(CatIndirect, Sub22, Steam,          1) >>

\* The rows other sheets are made of
RowLibrary ==
    << Row(CatDirect,   Sub11,  NaturalGas,     2),
       Row(CatOther,    Sub99,  NaturalGas,     2),
       Row(CatIndirect, Sub21,  MunicipalPower, 3),
       Row(CatIndirect, Sub211, MunicipalPower, 1),
       Row(CatDirect,   NaN,    NaturalGas,     2) >>

\* a sheet with the six required columns
Sheet(rows) == [columns_ok |-> TRUE, rows |-> rows]

\* a sheet that lacks a required column
BadSheet == [columns_ok |-> FALSE, rows |-> <<>>]

\* the sheets of the model: up to MaxRows consecutive rows of the library
Sheets ==
    { Sheet(SubSeq(RowLibrary, w[1], w[2])) :
        w \in { v \in (1..Len(RowLibrary)) \X (1..Len(RowLibrary)) :
                  v[1] <= v[2] /\ v[2] < v[1] + MaxRows } }

\* what the model's user uploads
Files == Sheets \cup {BadSheet}

-----------------------------------------------------------------------------
(* Step 3: matching a row to an emission factor *)

\* DeriveKey without the national-average fallback of the '2.1' branch
DeriveKeyNoFallback(subcat, source) ==
    IF Contains(Code11, subcat) THEN FixedCombustion \o source
    ELSE IF Contains(Code12, subcat) THEN MobileCombustion \o source
    ELSE IF Contains(Code13, subcat) THEN ProcessEmission \o source
    ELSE IF Contains(Code14, subcat) THEN FugitiveEmission \o source
    ELSE IF Contains(Code21, subcat) THEN PurchasedPower \o source
    ELSE IF Contains(Code22, subcat) THEN PurchasedHeat \o source
    ELSE None

\* DeriveKey with the '1.2' branch left as a copy of the '1.1' branch
DeriveKeyCopied(subcat, source) ==
    IF Contains(Code11, subcat) THEN FixedCombustion \o source
    ELSE IF Contains(Code12, subcat) THEN FixedCombustion \o source
    ELSE IF Contains(Code13, subcat) THEN ProcessEmission \o source
    ELSE IF Contains(Code14, subcat) THEN FugitiveEmission \o source
    ELSE IF Contains(Code21, subcat)
         THEN IF Contains(ElectricityMarker, source)
              THEN NationalAverage
              ELSE PurchasedPower \o source
    ELSE IF Contains(Code22, subcat) THEN PurchasedHeat \o source
    ELSE None

\* the if/elif chain that derives the registry key of a row
DeriveKey(subcat, source) ==
    IF Contains(Code11, subcat) THEN FixedCombustion \o source
    ELSE IF Contains(Code12, subcat) THEN MobileCombustion \o source
    ELSE IF Contains(Code13, subcat) THEN ProcessEmission \o source
    ELSE IF Contains(Code14, subcat) THEN FugitiveEmission \o source
    ELSE IF Contains(Code21, subcat)
         THEN IF Contains(ElectricityMarker, source)
              THEN NationalAverage
              ELSE PurchasedPower \o source
    ELSE IF Contains(Code22, subcat) THEN PurchasedHeat \o source
    ELSE None

\* the five result columns written for one row
ClassifyRow(row, factors) ==
    LET key == DeriveKey(Str(row.subcategory), Str(row.source))
    IN  IF key # None /\ key \in DOMAIN factors
        THEN [category |-> row.category, subcategory |-> row.subcategory,
              source |-> row.source, quantity |-> row.quantity,
              suggested_key |-> key,
              factor |-> factors[key].factor,
              factor_unit |-> factors[key].unit,
              ghg_type |-> factors[key].ghg_type,
              status |-> Matched]
        ELSE [category |-> row.category, subcategory |-> row.subcategory,
              source |-> row.source, quantity |-> row.quantity,
              suggested_key |-> IF key # None THEN key ELSE Unrecognized,
              factor |-> 0,
              factor_unit |-> NeedsInput,
              ghg_type |-> "CO2",
              status |-> Unmatched]

\* the loop over result_df.iterrows()
MatchRows(rows, factors) == [i \in DOMAIN rows |-> ClassifyRow(rows[i], factors)]

-----------------------------------------------------------------------------
(* Step 4: emissions and summaries *)

\* '范围一' if '直接' in x else '范围二'
ScopeOf(category) == IF Contains(DirectMarker, category) THEN Scope1 ELSE Scope2

\* The three columns added to calc_df.  The kg column is in units of
\* 1/10000 kg and the tonnes column in units of 1/10000000 t, so dividing
\* by 1000 leaves the stored integer as it is.
ComputeRow(r) ==
    [category |-> r.category, subcategory |-> r.subcategory,
     source |-> r.source, quantity |-> r.quantity,
     suggested_key |-> r.suggested_key, factor |-> r.factor,
     factor_unit |-> r.factor_unit, ghg_type |-> r.ghg_type, status |-> r.status,
     kg |-> r.quantity * r.factor,
     t |-> r.quantity * r.factor,
     scope |-> ScopeOf(r.category)]

\* calc_df[column].sum()
ColumnSum(rows) == SumOver([i \in DOMAIN rows |-> rows[i].t], DOMAIN rows)

\* calc_df.groupby(col)[tonnes].sum(): pandas leaves out the rows whose
\* group key is missing
GroupSum(rows, col, missing) ==
    LET keys == {rows[i][col] : i \in DOMAIN rows} \ {missing}
    IN  [k \in keys |->
            SumOver([i \in DOMAIN rows |-> rows[i].t],
                    {i \in DOMAIN rows : rows[i][col] = k})]

\* summary.get(key, 0)
Get(summary, key) == IF key \in DOMAIN summary THEN summary[key] ELSE 0

\* f"{scope/total*100:.1f}%": the share in tenths of a percent, digit by
\* digit.  total and scope are numpy floats, so a zero total yields nan
\* (inf for a non-zero scope), never an exception.
Share(scope, total) ==
    IF total = 0
    THEN [text |-> IF scope = 0 THEN "nan%" ELSE "inf%", tenths |-> 0]
    ELSE LET q  == scope \div total
             r0 == scope % total
             d1 == (r0 * 10) \div total
             r1 == (r0 * 10) % total
             d2 == (r1 * 10) \div total
             r2 == (r1 * 10) % total
             d3 == (r2 * 10) \div total
             r3 == (r2 * 10) % total
             up == IF 2 * r3 >= total THEN 1 ELSE 0
         IN  [text |-> "number%",
              tenths |-> q * 1000 + d1 * 100 + d2 * 10 + d3 + up]

\* everything step 4 shows and exports
Compute(md) ==
    LET calc   == [i \in DOMAIN md |-> ComputeRow(md[i])]
        total  == ColumnSum(calc)
        scopes == GroupSum(calc, "scope", Cleared)
        s1     == Get(scopes, Scope1)
        s2     == Get(scopes, Scope2)
    IN  [calc_df        |-> calc,
         total_emission |-> total,
         scope1         |-> s1,
         scope2         |-> s2,
         ghg_summary    |-> GroupSum(calc, "ghg_type", Cleared),
         subcat         |-> GroupSum(calc, "subcategory", NaN),
         share1         |-> Share(s1, total),
         share2         |-> Share(s2, total)]

\* if calculation_done and matched_data is not None
Step4(done, md) == IF done /\ md # NoData THEN <<Compute(md[1])>> ELSE NoReport

\* the boxes of step 2 and step 3
Boxes(file, matchPressed) ==
    IF file = NoFile THEN {}
    ELSE IF ~file[1].columns_ok THEN {"schema_error"}
    ELSE {"upload_ok"} \cup (IF matchPressed THEN {"match_done"} ELSE {})

\* the file is shown and step 3 is reachable
Accepted(file) == file # NoFile /\ file[1].columns_ok

-----------------------------------------------------------------------------
(* The sidebar form *)

\* options of the gas selectbox
GhgOptions == {"CO2", "CH4", "N2O", "HFCs"}

\* What the model's user submits: a new key ('固定燃烧-生物质', the form's
\* own example) and a key of the default table, each with factor 1.5, and
\* the same with the name, the factor or the unit left at its empty default.
NewKey == FixedCombustion \o Biomass
FormChoices ==
    { <<NewKey, 15000, "kgCO2/kg", "CH4">>,
      <<K0,     15000, "kgCO2/kg", "CH4">>,
      <<<<>>,   15000, "kgCO2/kg", "CH4">>,
      <<NewKey, 0,     "kgCO2/kg", "CH4">>,
      <<NewKey, 15000, "",         "CH4">> }

\* if new_name and new_factor > 0 and new_unit
FormValid(name, factor, unit) == name # <<>> /\ factor > 0 /\ unit # ""

\* Store as dict.setdefault would do it: an existing entry is kept
StoreIfAbsent(factors, name, entry) ==
    [k \in DOMAIN factors \cup {name} |->
        IF k \in DOMAIN factors THEN factors[k] ELSE entry]

\* emission_factors[new_name] = {...}
Store(factors, name, entry) ==
    [k \in DOMAIN factors \cup {name} |-> IF k = name THEN entry ELSE factors[k]]

Event(op) == [op |-> op, new_name |-> <<>>, new_factor |-> 0, new_unit |-> "", new_ghg |-> ""]

-----------------------------------------------------------------------------
(* The state machine *)

Init ==
    /\ emission_factors = DefaultFactors
    /\ matched_data = NoData
    /\ calculation_done = FALSE
    /\ uploaded_file = NoFile
    /\ event = Event("start")
    /\ feedback = {}
    /\ report = NoReport
    /\ edits = 0

\* The user submits the sidebar form.  A valid entry is stored and st.rerun()
\* restarts the script; an invalid one is passed over and the script runs on.
\* Either way the page ends as a plain execution leaves it.
Add ==
    \E name \in {f[1] : f \in FormChoices}, factor \in {f[2] : f \in FormChoices},
       unit \in {f[3] : f \in FormChoices}, ghg \in GhgOptions :
        /\ <<name, factor, unit, ghg>> \in FormChoices
        /\ event' = [op |-> "add", new_name |-> name, new_factor |-> factor,
                     new_unit |-> unit, new_ghg |-> ghg]
        /\ emission_factors' =
              IF FormValid(name, factor, unit)
              THEN Store(emission_factors, name, Entry(factor, unit, ghg))
              ELSE emission_factors
        /\ feedback' = Boxes(uploaded_file, FALSE)
        /\ report' = Step4(calculation_done, matched_data)
        /\ UNCHANGED <<matched_data, calculation_done, uploaded_file, edits>>

\* The user puts a file into the uploader
Upload(files) ==
    \E f \in files :
        /\ uploaded_file' = <<f>>
        /\ event' = Event("upload")
        /\ feedback' = Boxes(<<f>>, FALSE)
        /\ report' = Step4(calculation_done, matched_data)
        /\ UNCHANGED <<emission_factors, matched_data, calculation_done, edits>>

\* The user removes the file from the uploader
Remove ==
    /\ uploaded_file # NoFile
    /\ uploaded_file' = NoFile
    /\ event' = Event("remove")
    /\ feedback' = Boxes(NoFile, FALSE)
    /\ report' = Step4(calculation_done, matched_data)
    /\ UNCHANGED <<emission_factors, matched_data, calculation_done, edits>>

\* The user presses the match button
Match ==
    /\ Accepted(uploaded_file)
    /\ matched_data' = <<MatchRows(uploaded_file[1].rows, emission_factors)>>
    /\ edits' = 0
    /\ event' = Event("match")
    /\ feedback' = Boxes(uploaded_file, TRUE)
    /\ report' = Step4(calculation_done, matched_data')
    /\ UNCHANGED <<emission_factors, calculation_done, uploaded_file>>

\* columns of the data editor that are not disabled, and the values the
\* model's reviewer enters; the key column offers the registry's keys
EditChoices(col) ==
    CASE col = "suggested_key" -> {K0, K12} \cap DOMAIN emission_factors
      [] col = "factor"        -> {20000}
      [] col = "factor_unit"   -> {"kgCO2/kg"}
      [] col = "ghg_type"      -> {"CH4", Cleared}
      [] col = "status"        -> {Matched}

EditableColumns == {"suggested_key", "factor", "factor_unit", "ghg_type", "status"}

\* what st.data_editor returns after the reviewer changed one cell
EditCell(rows, i, col, val) == [rows EXCEPT ![i][col] = val]

\* The reviewer changes one cell of the data editor
Edit ==
    /\ Accepted(uploaded_file)
    /\ matched_data # NoData
    /\ edits < MaxEdits
    /\ \E i \in DOMAIN matched_data[1], col \in EditableColumns :
         \E val \in EditChoices(col) :
            /\ matched_data[1][i][col] # val
            /\ matched_data' = <<EditCell(matched_data[1], i, col, val)>>
    /\ edits' = edits + 1
    /\ event' = Event("edit")
    /\ feedback' = Boxes(uploaded_file, FALSE)
    /\ report' = Step4(calculation_done, matched_data')
    /\ UNCHANGED <<emission_factors, calculation_done, uploaded_file>>

\* The user presses the confirm button; st.rerun() restarts the script
Confirm ==
    /\ Accepted(uploaded_file)
    /\ matched_data # NoData
    /\ calculation_done' = TRUE
    /\ event' = Event("confirm")
    /\ feedback' = Boxes(uploaded_file, FALSE)
    /\ report' = Step4(TRUE, matched_data)
    /\ UNCHANGED <<emission_factors, matched_data, uploaded_file, edits>>

Next == Add \/ Upload(Files) \/ Remove \/ Match \/ Edit \/ Confirm

Spec == Init /\ [][Next]_vars

\* the session of a user who uploads the template as downloaded
NextTemplate == Add \/ Upload({Sheet(Template)}) \/ Remove \/ Match \/ Edit \/ Confirm

SpecTemplate == Init /\ [][NextTemplate]_vars

\* Sheets of one row for the matcher alone: every subcategory text below
\* with every source text below
SubcatChoices ==
    { Sub11, Sub21, Sub22, Sub211, Sub99, NaN,
      <<"1", ".", "2", ".", "1">>,
      <<"1", "2", ".", "1">>,
      <<"2", ".", "1", "/", "2", ".", "2">> }

SourceChoices == {MunicipalPower, ElectricityMarker, NaturalGas, NaN}

ClassifySheets ==
    { Sheet(<<Row(CatIndirect, s, src, 1)>>) : s \in SubcatChoices, src \in SourceChoices }

\* the session of a user who registers factors, uploads and matches
NextClassify == Add \/ Upload(ClassifySheets) \/ Match

SpecClassify == Init /\ [][NextClassify]_vars

-----------------------------------------------------------------------------
(* Properties *)

\* the rows of the last computation, none if step 4 did not run
Computed == IF report = NoReport THEN <<>> ELSE report[1].calc_df

\* the registry entry of a matched row agrees with the row
Agrees(r, factors) ==
    /\ r.factor = factors[r.suggested_key].factor
    /\ r.factor_unit = factors[r.suggested_key].unit
    /\ r.ghg_type = factors[r.suggested_key].ghg_type

\* C1: every row that enters the emissions computation carries the factor,
\* unit and gas type of the registry entry of its current suggested key.
C1_FactorFollowsKey ==
    \A i \in DOMAIN Computed :
        Computed[i].suggested_key \in DOMAIN emission_factors
            => Agrees(Computed[i], emission_factors)

\* C2: a new upload or a successful registry add invalidates the matched
\* rows: the execution it triggers shows no step-4 results computed from the
\* matched_data of before.
C2_UploadOrAddInvalidates ==
    [][ ( \/ event'.op = "upload" /\ uploaded_file' # uploaded_file
          \/ event'.op = "add" /\ emission_factors' # emission_factors )
        => report' = NoReport ]_vars

\* the error box a rejected form submission is to show
InvalidFactor == "invalid_factor"

\* the last interaction was a form submission the program does not store
Rejected(e) == e.op = "add" /\ ~FormValid(e.new_name, e.new_factor, e.new_unit)

\* C3: a registry add with factor <= 0, an empty key or an empty unit is
\* rejected with an InvalidFactor error shown to the user and leaves the
\* registry exactly as it was.
C3_RejectedAddReported ==
    [][ Rejected(event')
        => /\ emission_factors' = emission_factors
           /\ InvalidFactor \in feedback' ]_vars

\* the entries a key can hold: its default, or one a submitted form gave it
Registered(k) ==
    (IF k \in DefaultKeys THEN {DefaultFactors[k]} ELSE {})
    \cup { Entry(f[2], f[3], f[4]) : f \in {g \in FormChoices : g[1] = k} }

\* C4: no key is ever removed from the registry (defaults and added keys
\* stay); a successful add makes its key hold exactly the added factor, unit
\* and gas type and leaves every other entry alone; nothing else changes an
\* entry, so lookup returns the latest successful add, or the default.
C4_RegistryOnlyGrows ==
    [][ /\ DOMAIN emission_factors \subseteq DOMAIN emission_factors'
        /\ DefaultKeys \subseteq DOMAIN emission_factors'
        /\ \A k \in DOMAIN emission_factors' : emission_factors'[k] \in Registered(k)
        /\ IF event'.op = "add" /\ ~Rejected(event')
           THEN /\ emission_factors'[event'.new_name] =
                      Entry(event'.new_factor, event'.new_unit, event'.new_ghg)
                /\ \A k \in DOMAIN emission_factors \ {event'.new_name} :
                      emission_factors'[k] = emission_factors[k]
           ELSE emission_factors' = emission_factors ]_vars

\* a default key has been overwritten and a new key added, last of all
C4_Witness ==
    /\ event.op = "add"
    /\ event.new_name = K0
    /\ emission_factors[K0] = Entry(15000, "kgCO2/kg", "CH4")
    /\ NewKey \in DOMAIN emission_factors

\* the rows as the matcher has just written them
Fresh == IF event.op = "match" THEN matched_data[1] ELSE <<>>

\* the row is purchased electricity by its texts
IsElectricity(r) ==
    /\ Contains(Code21, Str(r.subcategory))
    /\ Contains(ElectricityMarker, Str(r.source))

\* the subcategory text holds one of the codes tested before '2.1'
HasEarlierCode(r) ==
    \E code \in {Code11, Code12, Code13, Code14} : Contains(code, Str(r.subcategory))

\* C5 as stated: a row whose subcategory contains '2.1' and whose source
\* contains the electricity marker is given the national-average key,
\* whatever else the subcategory contains.
C5_ElectricityAlwaysNational ==
    \A i \in DOMAIN Fresh :
        IsElectricity(Fresh[i]) => Fresh[i].suggested_key = NationalAverage

\* C5 as amended: a row whose subcategory contains '2.1' and none of '1.1',
\* '1.2', '1.3', '1.4', and whose source contains the electricity marker, is
\* given the national-average key whatever the source text is.
C5_ElectricityNationalUnlessEarlierCode ==
    \A i \in DOMAIN Fresh :
        IsElectricity(Fresh[i]) /\ ~HasEarlierCode(Fresh[i])
            => Fresh[i].suggested_key = NationalAverage

\* such a row has been matched, its source not being the marker alone
C5_Witness ==
    \E i \in DOMAIN Fresh :
        /\ IsElectricity(Fresh[i]) /\ ~HasEarlierCode(Fresh[i])
        /\ Fresh[i].subcategory # Sub21
        /\ Fresh[i].source = MunicipalPower
        /\ Fresh[i].suggested_key = NationalAverage

IsNotUnmatched(r) == r.status # Unmatched

\* C6: rows with status UNMATCHED carry factor 0 when emissions are
\* computed, so the grand total equals the grand total of the dataset
\* without them.
C6_UnmatchedContributeZero ==
    /\ \A i \in DOMAIN Computed :
          Computed[i].status = Unmatched => Computed[i].factor = 0
    /\ report # NoReport =>
          report[1].total_emission = ColumnSum(SelectSeq(Computed, IsNotUnmatched))

\* the sum of the group totals of a summary
Total(summary) == SumOver(summary, DOMAIN summary)

\* C7: the per-scope totals, the per-gas totals and the per-subcategory
\* totals each add up to the grand total, and scope1 + scope2 = total.
C7_GroupTotalsReconcile ==
    report # NoReport =>
        /\ report[1].scope1 + report[1].scope2 = report[1].total_emission
        /\ Total(report[1].ghg_summary) = report[1].total_emission
        /\ Total(report[1].subcat) = report[1].total_emission

\* '间接'
IndirectMarker == <<"u95F4", "u63A5">>

\* C8: a row whose category text names neither direct nor indirect
\* emissions makes the computation fail; it never appears in the results
\* with a scope and never counts towards the scope-2 total.
C8_UnrecognisedCategoryFails ==
    \A i \in DOMAIN Computed :
        \/ Contains(DirectMarker, Computed[i].category)
        \/ Contains(IndirectMarker, Computed[i].category)

TemplateKeys == <<K0, K4, K6, K8, K11, K14>>

\* C10: the six template rows, matched unedited, are all MATCHED, each
\* to its own registry key with the factor, unit and gas type the registry
\* holds for it (the defaults if nothing was added), whatever was added to
\* the registry before.
C10_TemplateFullyMatched ==
    (event.op = "match" /\ uploaded_file = <<Sheet(Template)>>)
        => /\ Len(Fresh) = Len(Template)
           /\ \A i \in DOMAIN Fresh :
                /\ Fresh[i].status = Matched
                /\ Fresh[i].suggested_key = TemplateKeys[i]
                /\ Agrees(Fresh[i], emission_factors)
                /\ emission_factors = DefaultFactors
                      => Agrees(Fresh[i], DefaultFactors)
           /\ \A i, j \in DOMAIN Fresh :
                Fresh[i].suggested_key = Fresh[j].suggested_key => i = j

\* the template has been matched after a default factor was replaced
C10_Witness ==
    /\ event.op = "match"
    /\ uploaded_file = <<Sheet(Template)>>
    /\ emission_factors[K0] # DefaultFactors[K0]
    /\ Fresh[1].factor = 15000
    /\ \A i \in DOMAIN Fresh : Fresh[i].status = Matched

=============================================================================
